---- MODULE Spec2Model ----
(***************************************************************************)
(* Model of hub.core.dataset.Dataset (src/hub/core/dataset/dataset.py):    *)
(* the version-control position of a Dataset view, the DatasetMeta         *)
(* namespace kept under a commit-scoped key of a write-back cache, the     *)
(* scoped-write (autoflush) discipline and the advisory write lock of a    *)
(* remote dataset.                                                         *)
(*                                                                         *)
(* Names and paths are tuples of one-character strings, so that            *)
(* str.strip, str.replace, posixpath.join and posixpath.split are          *)
(* computed and not assumed.  Commit ids are naturals: FIRST_COMMIT_ID is  *)
(* 0 and generate_hash() returns the next unused number.                   *)
(*                                                                         *)
(* Specifications: Spec (namespace and commit graph through the dataset    *)
(* and a group view), SpecViews (the version state each view reports),     *)
(* SpecNames (calls with pairwise distinct names), SpecScope (with-blocks  *)
(* and cache eviction), SpecLock (Dataset objects on one S3 location),     *)
(* SpecOpen (construction of a dataset and of its views on S3, local and   *)
(* in-memory storage), SpecTrip (commit / checkout round trips), SpecPickle*)
(* (serialized state), SpecLookup (ds[name] through every view), SpecGraph *)
(* (the commit graph of the dataset and of a root view), SpecIter (length  *)
(* and iteration of views), SpecFlush (autoflush inside and outside        *)
(* with-blocks).                                                           *)
(***************************************************************************)
EXTENDS Bags, FiniteSets, Integers, Sequences, TLC

VARIABLES
    vs,         \* version_state dicts: "V" (the opened dataset and the views
                \* that were passed version_state), "R" (a root/parent view)
    store,      \* LRUCache: key -> object as seen through the cache
    base,       \* base tier: key -> object
    dirty,      \* LRUCache.dirty_keys
    autoflush,  \* LRUCache.autoflush
    nextId,     \* next value generate_hash() returns
    changed,    \* commit ids that hold changes made by a namespace operation
    open,       \* Dataset objects the caller holds
    scope,      \* nesting depth of `with ds:` blocks
    scopeWrites,\* key -> the values the cache has held for it since the last
                \* storage[key] = value made inside the block
    supplied,   \* create_tensor / create_group calls made: kind, full
                \* normalized name, whether the call returned
    last,       \* the last call that changed something: operation, view,
                \* exception, return value
    lockOwner,  \* holder of the lock marker at the S3 location
    lockExpired,\* the marker is older than the lock's validity
    dsobj,      \* Dataset objects opened on the S3 location
    storageObj, \* the size of the contents of the S3 location (0 = cleared)
    s3Dataset,  \* the S3 location holds a dataset
    baseKind,   \* the base storage of the dataset: "s3", "local" or "mem"
    readOnly,   \* the read_only flag the dataset was opened with
    index,      \* view -> its Index
    lockCalls,  \* the constructor calls that called lock(): their arguments
    trip,       \* the calls of a commit / checkout round trip made so far
    restored    \* the attributes of the Dataset last restored from its
                \* serialized state

vars == <<vs, store, base, dirty, autoflush, nextId, changed, open, scope,
          scopeWrites, supplied, last, lockOwner, lockExpired, dsobj,
          storageObj, s3Dataset, baseKind, readOnly, index, lockCalls,
          trip, restored>>

verVars  == <<vs, store, base, dirty, autoflush, nextId, changed, open, scope,
              scopeWrites, supplied, last, baseKind, readOnly, index,
              lockCalls, trip, restored>>
openVars == <<baseKind, readOnly, index, lockCalls, trip, restored>>
lockVars == <<lockOwner, lockExpired, dsobj, storageObj, s3Dataset>>

-----------------------------------------------------------------------------
(* Bounds *)

MaxId      == 3   \* generate_hash() is called at most MaxId times
MaxEntries == 4   \* tensors + group entries of one DatasetMeta
MaxScope   == 2   \* nesting depth of scoped-write blocks
MaxSize    == 2   \* size of the S3 dataset, in GB
MaxLen     == 9   \* number of samples of the dataset
MaxDepth   == 4   \* nested __getitem__ calls before RecursionError

-----------------------------------------------------------------------------
(* Strings *)

SLASH == "/"
G     == <<"g">>
X     == <<"x">>
GX    == <<"g", "/", "x">>
GXY   == <<"g", "/", "x", "/", "y">>
INFO  == <<"i", "n", "f", "o">>
EMPTY == <<>>

\* dir(self): attribute names of a Dataset object (self.info is set in
\* _set_derived_attributes)
DirSelf == { INFO }

RECURSIVE LStrip(_)
LStrip(s) == IF s # <<>> /\ Head(s) = SLASH THEN LStrip(Tail(s)) ELSE s

RECURSIVE RStrip(_)
RStrip(s) ==
    IF s # <<>> /\ s[Len(s)] = SLASH THEN RStrip(SubSeq(s, 1, Len(s) - 1))
    ELSE s

\* name.strip("/")
Strip(s) == RStrip(LStrip(s))

\* "//" in name
HasDoubleSlash(s) ==
    \E i \in 1..(Len(s) - 1) : s[i] = SLASH /\ s[i + 1] = SLASH

\* name.replace("//", "/"): one left-to-right pass over non-overlapping matches
RECURSIVE ReplaceDoubleSlash(_)
ReplaceDoubleSlash(s) ==
    IF Len(s) < 2 THEN s
    ELSE IF s[1] = SLASH /\ s[2] = SLASH
         THEN <<SLASH>> \o ReplaceDoubleSlash(SubSeq(s, 3, Len(s)))
         ELSE <<s[1]>> \o ReplaceDoubleSlash(Tail(s))

\* while "//" in name: name = name.replace("//", "/")
RECURSIVE Collapse(_)
Collapse(s) == IF HasDoubleSlash(s) THEN Collapse(ReplaceDoubleSlash(s)) ELSE s

Normalize(s) == Collapse(Strip(s))

HasSlash(s) == \E i \in 1..Len(s) : s[i] = SLASH

\* posixpath.join(a, b)
Join(a, b) ==
    IF b # <<>> /\ Head(b) = SLASH THEN b
    ELSE IF a = <<>> \/ a[Len(a)] = SLASH THEN a \o b
    ELSE a \o <<SLASH>> \o b

\* p.rfind("/") + 1
RFindSlash(s) ==
    IF HasSlash(s) THEN CHOOSE i \in 1..Len(s) :
                            /\ s[i] = SLASH
                            /\ \A j \in (i + 1)..Len(s) : s[j] # SLASH
    ELSE 0

\* posixpath.split(p) = (head, tail)
Split(p) ==
    LET i    == RFindSlash(p)
        head == SubSeq(p, 1, i)
        tail == SubSeq(p, i + 1, Len(p))
    IN  IF head # <<>> /\ \E j \in 1..Len(head) : head[j] # SLASH
        THEN <<RStrip(head), tail>>
        ELSE <<head, tail>>

-----------------------------------------------------------------------------
(* Storage: an LRUCache over a base provider *)

NONE == "none"

FIRST_COMMIT_ID == 0
NoParent        == -1

DMKey(cid)       == <<"dm", cid, EMPTY>>   \* get_dataset_meta_key(commit_id)
TMKey(cid, name) == <<"tm", cid, name>>    \* get_tensor_meta_key(name, commit_id)
VCKey            == <<"vc", 0, EMPTY>>     \* get_version_control_info_key()

\* TensorMeta: the number of samples of the tensor
TensorMeta(n) == [length |-> n]

\* DatasetMeta(): tensors is a list, groups a list (kept as a bag: its order
\* is never read)
EmptyMeta == [tensors |-> <<>>, groups |-> EmptyBag]

Range(s) == { s[i] : i \in DOMAIN s }

Put(f, k, v) == [x \in DOMAIN f \cup {k} |-> IF x = k THEN v ELSE f[x]]

Raise(w, e) == [w EXCEPT !.err = e]

\* LRUCache.flush(): every dirty key goes to the base tier
FlushW(w) ==
    [w EXCEPT !.base  = [k \in DOMAIN w.base \cup w.dirty |->
                            IF k \in w.dirty THEN w.store[k] ELSE w.base[k]],
              !.dirty = {}]

\* LRUCache.maybe_flush()
MaybeFlush(w) == IF w.af THEN FlushW(w) ELSE w

\* storage[key] = value
SetItem(w, k, v) ==
    MaybeFlush([w EXCEPT !.store  = Put(@, k, v),
                         !.dirty  = @ \cup {k},
                         !.sets   = Put(@, k, {v}),
                         !.writes = @ \cup {k}])

\* a change made in place to the object the cache holds under k: the cache
\* is not told, the key is not marked dirty
Mutate(w, k, v) ==
    [w EXCEPT !.store  = Put(@, k, v),
              !.sets   = IF k \in DOMAIN @ THEN Put(@, k, @[k] \cup {v}) ELSE @,
              !.writes = @ \cup {k}]

\* tensor_exists(key, storage, commit_id)
tensor_exists(w, name, cid) == TMKey(cid, name) \in DOMAIN w.store

\* storage.get_cachable(meta_key, DatasetMeta)
MetaOf(w, cid) == w.store[DMKey(cid)]

-----------------------------------------------------------------------------
(* Version control: hub.util.version_control and CommitNode *)

\* CommitNode(branch, commit_id): no parent yet, commit_time None
CommitNode(branch, parent) ==
    [branch |-> branch, parent |-> parent, commit_time |-> FALSE]

\* f"auto_{generate_hash()}"
AutoBranch(n) == "auto_" \o ToString(n)

\* load_meta(storage, version_state): version_state["meta"] is the object
\* cached under the current commit's key, full_tensors is rebuilt from it
load_meta(w) ==
    [w EXCEPT !.st.full_tensors = Range(MetaOf(w, w.st.commit_id).tensors)]

\* the commit graph is stored under the version-control info key
save_version_info(w) ==
    SetItem(w, VCKey, [branch_commit_map |-> w.st.branch_commit_map,
                       commit_node_map   |-> w.st.commit_node_map])

\* the namespace snapshot of commit src becomes the starting point of dst
copy_metas(w, src, dst) ==
    LET ks      == { k \in DOMAIN w.store : k[1] \in {"dm", "tm"} /\ k[2] = src }
        newKeys == { <<k[1], dst, k[3]>> : k \in ks }
        s       == [x \in DOMAIN w.store \cup newKeys |->
                        IF x \in newKeys THEN w.store[<<x[1], src, x[3]>>]
                        ELSE w.store[x]]
    IN  MaybeFlush([w EXCEPT !.store  = s,
                             !.dirty  = @ \cup newKeys,
                             !.sets   = [x \in DOMAIN @ \cup newKeys |->
                                            IF x \in newKeys THEN {s[x]}
                                            ELSE @[x]],
                             !.writes = @ \cup newKeys])

\* commit_node.commit_time is not None
IsFinalized(st) == st.commit_node_map[st.commit_node].commit_time

\* the current node is an uncommitted head that holds changes
HasUncommittedChanges(w) ==
    ~IsFinalized(w.st) /\ w.st.commit_id \in w.changed

\* checkout(..., create=True) after its checks: a new branch whose head is a
\* fresh child of the current commit
new_branch(w, name) ==
    LET st  == w.st
        new == w.nextId
        st1 == [st EXCEPT !.commit_node_map   = Put(@, new, CommitNode(name, st.commit_id)),
                          !.branch_commit_map = Put(@, name, new),
                          !.commit_id   = new,
                          !.commit_node = new,
                          !.branch      = name]
        w1  == save_version_info([w EXCEPT !.st = st1, !.nextId = new + 1])
    IN  load_meta(copy_metas(w1, st.commit_id, new))

\* an auto_checkout that does not look at commit_time
auto_checkout_always(w) == new_branch(w, AutoBranch(w.nextId))

\* auto_checkout(version_state, storage)
auto_checkout(w) ==
    IF IsFinalized(w.st) THEN new_branch(w, AutoBranch(w.nextId)) ELSE w

\* a commit that leaves the branch's entry in branch_commit_map behind
finalize_keep_head(w) ==
    LET st  == w.st
        old == st.commit_id
        new == w.nextId
        cnm == Put([st.commit_node_map EXCEPT ![old].commit_time = TRUE],
                   new, CommitNode(st.branch, old))
        st1 == [st EXCEPT !.commit_node_map = cnm,
                          !.commit_id   = new,
                          !.commit_node = new]
        w1  == save_version_info([w EXCEPT !.st = st1, !.nextId = new + 1])
    IN  load_meta(copy_metas(w1, old, new))

\* commit after its checks: stamp commit_time on the current node, allocate
\* an uncommitted child as the new position and head of the branch
finalize(w) ==
    LET st  == w.st
        old == st.commit_id
        new == w.nextId
        cnm == Put([st.commit_node_map EXCEPT ![old].commit_time = TRUE],
                   new, CommitNode(st.branch, old))
        st1 == [st EXCEPT !.commit_node_map   = cnm,
                          !.branch_commit_map = Put(@, st.branch, new),
                          !.commit_id   = new,
                          !.commit_node = new]
        w1  == save_version_info([w EXCEPT !.st = st1, !.nextId = new + 1])
    IN  load_meta(copy_metas(w1, old, new))

\* commit(version_state, storage, message)
vc_commit(w) ==
    IF ~IsFinalized(w.st) /\ w.st.commit_id \notin w.changed
    THEN Raise(w, "InvalidOperationError")
    ELSE finalize(auto_checkout(w))

\* the implicit commit of uncommitted changes before a checkout; the position
\* returns to the commit the caller was at
auto_commit(w) ==
    IF HasUncommittedChanges(w)
    THEN LET orig == w.st.commit_id
             w1   == finalize(w)
         IN  [w1 EXCEPT !.st.commit_id = orig, !.st.commit_node = orig]
    ELSE w

\* checkout(version_state, storage, address, create); an address is a branch
\* name or a commit id
vc_checkout(w, kind, address, create) ==
    LET st == w.st IN
    IF kind = "branch" /\ address \in DOMAIN st.branch_commit_map
    THEN IF create THEN Raise(w, "CheckoutError")
         ELSE LET w1 == auto_commit(w)
                  id == w1.st.branch_commit_map[address]
              IN  load_meta([w1 EXCEPT !.st.branch      = address,
                                       !.st.commit_id   = id,
                                       !.st.commit_node = id])
    ELSE IF kind = "commit" /\ address \in DOMAIN st.commit_node_map
    THEN IF create THEN Raise(w, "CheckoutError")
         ELSE LET w1 == auto_commit(w)
              IN  load_meta([w1 EXCEPT
                        !.st.commit_id   = address,
                        !.st.commit_node = address,
                        !.st.branch      = w1.st.commit_node_map[address].branch])
    ELSE IF create /\ kind = "branch"
    THEN new_branch(auto_commit(w), address)
    ELSE Raise(w, "CheckoutError")

-----------------------------------------------------------------------------
(* Dataset: construction and views *)

\* the version state of a dataset without stored version-control info
FreshVersionState ==
    [branch            |-> "main",
     commit_id         |-> FIRST_COMMIT_ID,
     commit_node       |-> FIRST_COMMIT_ID,
     branch_commit_map |-> [b \in {"main"} |-> FIRST_COMMIT_ID],
     commit_node_map   |-> [c \in {FIRST_COMMIT_ID} |-> CommitNode("main", NoParent)],
     full_tensors      |-> {}]

\* Dataset._load_version_info
load_version_info(w) ==
    IF VCKey \in DOMAIN w.store
    THEN LET info == w.store[VCKey]
             id   == info.branch_commit_map["main"]
         IN  [w EXCEPT !.st = [branch            |-> "main",
                               commit_id         |-> id,
                               commit_node       |-> id,
                               branch_commit_map |-> info.branch_commit_map,
                               commit_node_map   |-> info.commit_node_map,
                               full_tensors      |-> {}]]
    ELSE [w EXCEPT !.st = FreshVersionState]

\* dataset_exists(storage)
dataset_exists(w) == DMKey(FIRST_COMMIT_ID) \in DOMAIN w.store

\* a _populate_meta that creates the dataset wherever there is none
populate_meta_create_always(w, read_only) ==
    IF dataset_exists(w) THEN load_meta(w)
    ELSE FlushW(SetItem(w, DMKey(w.st.commit_id), EmptyMeta))

\* Dataset._populate_meta
populate_meta(w, read_only) ==
    IF dataset_exists(w) THEN load_meta(w)
    ELSE IF DOMAIN w.store # {} THEN Raise(w, "PathNotEmptyException")
    ELSE IF read_only THEN Raise(w, "CouldNotCreateNewDatasetException")
    ELSE FlushW(SetItem(w, DMKey(w.st.commit_id), EmptyMeta))

\* hub.core.index.Index: one selector per axis, each "all" (slice(None)), a
\* slice with start and stop, or an integer
AllEntry == <<"all", 0, 0>>
SliceEntry(a, b) == <<"slice", a, b>>
IntEntry(i) == <<"int", i, 0>>

\* Index() and the index argument left at its default
ALL     == <<AllEntry>>
NoIndex == <<>>

\* the object a lookup or a constructor call hands back: its index, its
\* group_index (the key, for a tensor), its read_only flag and whether its
\* version_state is the dict of the view it was made from
NoObj ==
    [index |-> NoIndex, group_index |-> EMPTY, read_only |-> FALSE,
     shared |-> FALSE]

\* Index.is_trivial
is_trivial(idx) == \A k \in DOMAIN idx : idx[k] = AllEntry

Min(a, b) == IF a <= b THEN a ELSE b

\* IndexEntry.__getitem__: a selector applied within a selector
entry_getitem(e, item) ==
    IF e[1] = "all" THEN item
    ELSE IF item[1] = "all" THEN e
    ELSE IF item[1] = "int" THEN IntEntry(e[2] + item[2])
    ELSE SliceEntry(Min(e[2] + item[2], e[3]), Min(e[2] + item[3], e[3]))

\* Index.__getitem__: the item narrows the first axis that is not an
\* integer, a new axis is added when there is none
index_getitem(idx, item) ==
    LET open_axes == { k \in DOMAIN idx : idx[k][1] # "int" }
    IN  IF open_axes = {} THEN Append(idx, item)
        ELSE LET k == CHOOSE x \in open_axes : \A y \in open_axes : x <= y
             IN  [idx EXCEPT ![k] = entry_getitem(idx[k], item)]

\* Dataset._set_derived_attributes; shared: a version_state was passed to
\* the constructor
set_derived_attributes(w, idx, gi, shared, read_only) ==
    LET w1 == IF is_trivial(idx) /\ gi = EMPTY THEN [w EXCEPT !.af = TRUE] ELSE w
        w2 == IF shared THEN w1 ELSE load_version_info(w1)
    IN  populate_meta(w2, read_only)

\* a lock condition that does not look at the index argument
lock_attempted_any_index(kind, idx, read_only) == ~read_only /\ kind = "s3"

\* the condition under which Dataset.__init__ calls lock()
lock_attempted(kind, idx, read_only) ==
    ~read_only /\ idx = NoIndex /\ kind = "s3"

\* Dataset.__init__ where the lock, if asked for, is free
dataset_init(w, idx, gi, read_only, shared) ==
    LET w1 == IF lock_attempted(w.kind, idx, read_only)
              THEN [w EXCEPT !.locks = @ \cup {[index |-> idx, group_index |-> gi,
                                                read_only |-> read_only]}]
              ELSE w
        self_index == IF idx = NoIndex THEN ALL ELSE idx
        w2 == set_derived_attributes(w1, self_index, gi, shared, read_only)
    IN  [w2 EXCEPT !.obj = [index |-> self_index, group_index |-> gi,
                            read_only |-> read_only, shared |-> shared]]

\* a root that leaves autoflush as the constructor set it
root_keep_autoflush(w, idx, gi) ==
    IF gi = EMPTY THEN w
    ELSE dataset_init(w, idx, EMPTY, w.ro, FALSE)

\* Dataset.root: the constructor is not passed self.version_state
root(w, idx, gi) ==
    IF gi = EMPTY THEN w
    ELSE [dataset_init(w, idx, EMPTY, w.ro, FALSE) EXCEPT !.af = w.af]

\* Dataset.parent (of a group view)
parent(w, idx, gi) ==
    [dataset_init(w, idx, Split(gi)[1], w.ro, FALSE) EXCEPT !.af = w.af]

\* name in groups
InGroups(w, name) ==
    name \in BagToSet(MetaOf(w, w.st.commit_id).groups)

RECURSIVE getitem_rec(_, _, _, _, _)

\* a lookup that gives the group view the whole-dataset index
getitem_group_unindexed(w, idx, gi, item, depth) ==
    LET fullpath == Join(gi, item)
        w1 == IF fullpath \in w.st.full_tensors THEN w ELSE load_meta(w)
    IN  IF depth = 0 THEN Raise(w, "RecursionError")
        ELSE IF fullpath \in w1.st.full_tensors
        THEN [w1 EXCEPT !.ret = <<"tensor", fullpath>>,
                        !.obj = [NoObj EXCEPT !.index = idx, !.group_index = fullpath,
                                              !.shared = TRUE]]
        ELSE IF InGroups(w1, fullpath)
        THEN [dataset_init(w1, ALL, fullpath, w1.ro, TRUE)
                EXCEPT !.ret = <<"group", fullpath>>]
        ELSE IF HasSlash(item)
        THEN LET sp == Split(item)
                 a  == getitem_rec(w1, idx, gi, sp[1], depth - 1)
             IN  IF a.err # NONE THEN a
                 ELSE IF a.ret[1] = "group"
                 THEN getitem_rec(a, a.obj.index, a.obj.group_index, sp[2], depth - 1)
                 ELSE Raise(a, "InvalidKeyTypeError")
        ELSE Raise(w1, "TensorDoesNotExistError")

\* Dataset.__getitem__ with a str item; depth: the nested calls the
\* interpreter still allows
getitem_rec(w, idx, gi, item, depth) ==
    LET fullpath == Join(gi, item)
        \* _get_tensor_from_root
        w1 == IF fullpath \in w.st.full_tensors THEN w ELSE load_meta(w)
    IN  IF depth = 0 THEN Raise(w, "RecursionError")
        ELSE IF fullpath \in w1.st.full_tensors
        \* tensor[self.index]
        THEN [w1 EXCEPT !.ret = <<"tensor", fullpath>>,
                        !.obj = [NoObj EXCEPT !.index = idx, !.group_index = fullpath,
                                              !.shared = TRUE]]
        ELSE IF InGroups(w1, fullpath)       \* _has_group_in_root
        THEN [dataset_init(w1, idx, fullpath, w1.ro, TRUE)
                EXCEPT !.ret = <<"group", fullpath>>]
        ELSE IF HasSlash(item)
        THEN LET sp == Split(item)
                 a  == getitem_rec(w1, idx, gi, sp[1], depth - 1)
             IN  IF a.err # NONE THEN a
                 ELSE IF a.ret[1] = "group"
                 THEN getitem_rec(a, a.obj.index, a.obj.group_index, sp[2], depth - 1)
                 ELSE Raise(a, "InvalidKeyTypeError")
        ELSE Raise(w1, "TensorDoesNotExistError")

getitem(w, idx, gi, item) == getitem_rec(w, idx, gi, item, MaxDepth)

\* a subscript that applies the item to the whole dataset
getitem_index_of_root(w, idx, gi, item) ==
    [dataset_init(w, index_getitem(ALL, item), gi, w.ro, TRUE)
        EXCEPT !.ret = <<"view", index_getitem(ALL, item)>>]

\* Dataset.__getitem__ with an int or slice item: the view returned and its
\* index
getitem_index(w, idx, gi, item) ==
    [dataset_init(w, index_getitem(idx, item), gi, w.ro, TRUE)
        EXCEPT !.ret = <<"view", index_getitem(idx, item)>>]

-----------------------------------------------------------------------------
(* Dataset: the namespace *)

\* a loop that appends the name and leaves its ancestors out
group_loop_leaf_only(groups, name, full_tensors) ==
    IF name \in full_tensors
    THEN [groups |-> groups, err |-> "TensorAlreadyExistsError"]
    ELSE [groups |-> groups (+) SetToBag({name}), err |-> NONE]

\* the while loop of Dataset._create_group: groups.append for the name and
\* each ancestor, stopping at the first that is a tensor
RECURSIVE group_loop(_, _, _)
group_loop(groups, name, full_tensors) ==
    IF name = EMPTY THEN [groups |-> groups, err |-> NONE]
    ELSE IF name \in full_tensors
    THEN [groups |-> groups, err |-> "TensorAlreadyExistsError"]
    ELSE group_loop(groups (+) SetToBag({name}), Split(name)[1], full_tensors)

\* Dataset._create_group (self is a root view)
create_group_inner(w, idx, name) ==
    LET cid  == w.st.commit_id
        meta == MetaOf(w, cid)
    IN  IF name = EMPTY \/ name \in DirSelf
        THEN Raise(w, "InvalidTensorGroupNameError")
        ELSE LET r  == group_loop(meta.groups, name, w.st.full_tensors)
                 w1 == IF r.groups = meta.groups THEN w
                       ELSE Mutate(w, DMKey(cid), [meta EXCEPT !.groups = r.groups])
             IN  IF r.err # NONE THEN Raise(w1, r.err)
                 ELSE LET m2 == [meta EXCEPT !.groups = SetToBag(BagToSet(r.groups))]
                          w2 == MaybeFlush(SetItem(w1, DMKey(cid), m2))
                      IN  getitem([w2 EXCEPT !.changed = @ \cup {cid}],
                                  idx, EMPTY, name)

\* Dataset.create_group
create_group(w, idx, gi, raw) ==
    LET r    == root(w, idx, gi)
        arg  == IF gi = EMPTY THEN raw ELSE Join(gi, raw)
        name == Normalize(arg)
        r1   == IF InGroups(r, name)
                THEN Raise(r, "TensorGroupAlreadyExistsError")
                ELSE create_group_inner(r, idx, name)
    IN  [r1 EXCEPT !.st = IF gi = EMPTY THEN r1.st ELSE w.st]

\* Dataset.create_tensor
RECURSIVE create_tensor(_, _, _, _)
create_tensor(w, idx, gi, raw) ==
    LET w1        == auto_checkout(w)
        name      == Normalize(raw)
        full_path == Join(gi, name)
        cid       == w1.st.commit_id
    IN  IF tensor_exists(w1, full_path, cid)
        THEN Raise(w1, "TensorAlreadyExistsError")
        ELSE IF InGroups(w1, full_path)
        THEN Raise(w1, "TensorGroupAlreadyExistsError")
        ELSE IF name = EMPTY \/ name \in DirSelf
        THEN Raise(w1, "InvalidTensorNameError")
        ELSE IF gi # EMPTY
        THEN [create_tensor(root(w1, idx, gi), idx, EMPTY, full_path)
                EXCEPT !.st = w1.st]
        ELSE LET w2 == IF HasSlash(name)
                       THEN create_group_inner(w1, idx, Split(name)[1])
                       ELSE w1
             IN  IF w2.err # NONE THEN w2
                 ELSE LET w3 == SetItem(w2, TMKey(cid, name), TensorMeta(0))
                          m  == MetaOf(w3, cid)
                          w4 == MaybeFlush(Mutate(w3, DMKey(cid),
                                    [m EXCEPT !.tensors = Append(@, name)]))
                      IN  [w4 EXCEPT !.st.full_tensors = @ \cup {name},
                                     !.changed = @ \cup {cid},
                                     !.ret = <<"tensor", name>>]

\* Tensor.extend: k samples are appended to the tensor, after auto_checkout
extend(w, name, k) ==
    LET w1  == auto_checkout(w)
        key == TMKey(w1.st.commit_id, name)
    IN  IF key \notin DOMAIN w1.store THEN Raise(w1, "TensorDoesNotExistError")
        ELSE [SetItem(w1, key, TensorMeta(w1.store[key].length + k))
                EXCEPT !.changed = @ \cup {w1.st.commit_id}]

\* Index.length(parent_length): the number of samples the first selector
\* picks among parent_length samples
index_length(idx, n) ==
    LET e == idx[1]
    IN  IF e[1] = "all" THEN n
        ELSE IF e[1] = "int" THEN 1
        ELSE Min(e[3], n) - Min(e[2], n)

\* min(..., default=0)
MinOf(S) == IF S = {} THEN 0 ELSE CHOOSE x \in S : \A y \in S : x <= y

\* t.startswith(prefix)
StartsWith(t, prefix) ==
    Len(t) >= Len(prefix) /\ SubSeq(t, 1, Len(prefix)) = prefix

\* Dataset.num_samples: the length of the smallest tensor of the dataset,
\* whatever the index and the group
num_samples(w) ==
    MinOf({ w.store[TMKey(w.st.commit_id, t)].length : t \in w.st.full_tensors })

\* Dataset._all_tensors_filtered, by full path
all_tensors_filtered(w, gi) ==
    { t \in load_meta(w).st.full_tensors :
        gi = EMPTY \/ StartsWith(t, gi \o <<SLASH>>) }

\* a length that ignores the index and the group
dataset_len_raw(w, idx, gi) == num_samples(load_meta(w))

\* Dataset.__len__: the smallest len(tensor[self.index]) over self.tensors
dataset_len(w, idx, gi) ==
    MinOf({ index_length(idx, w.store[TMKey(w.st.commit_id, t)].length) :
                t \in all_tensors_filtered(w, gi) })

\* the loop of Dataset.__iter__ from i: the views self[i], ..., self[n - 1]
RECURSIVE iter_from(_, _, _, _, _)
iter_from(w, idx, gi, i, n) ==
    IF i >= n THEN [w EXCEPT !.ret = <<"rows", <<>>>>]
    ELSE LET a == getitem_index(w, idx, gi, IntEntry(i))
         IN  IF a.err # NONE THEN a
             ELSE LET rest == iter_from(a, idx, gi, i + 1, n)
                  IN  IF rest.err # NONE THEN rest
                      ELSE [rest EXCEPT !.ret = <<"rows", <<a.ret[2]>> \o rest.ret[2]>>]

\* Dataset.__iter__, run to its end: range(len(self)) is evaluated once
dataset_iter(w, idx, gi) ==
    iter_from(load_meta(w), idx, gi, 0, dataset_len(w, idx, gi))

\* Dataset.commit
commit(w) ==
    LET commit_id == w.st.commit_id
        w1        == vc_commit(w)
    IN  IF w1.err # NONE THEN w1 ELSE [w1 EXCEPT !.ret = <<"id", commit_id>>]

\* a checkout that returns the current commit_id and moves nowhere
checkout_stay(w, kind, address, create) ==
    [w EXCEPT !.ret = <<"id", w.st.commit_id>>]

\* Dataset.checkout
checkout(w, kind, address, create) ==
    LET w1 == vc_checkout(w, kind, address, create)
    IN  IF w1.err # NONE THEN w1
        ELSE [w1 EXCEPT !.ret = <<"id", w1.st.commit_id>>]

\* get_path_from_storage(storage): scheme and name
PathOf(kind) == <<kind, "ds">>

\* nothing restored yet
NoState ==
    [path |-> <<"none", "none">>, read_only |-> FALSE, index |-> NoIndex,
     group_index |-> EMPTY, version_state |-> FreshVersionState]

\* Dataset.__getstate__: the dict to pickle
getstate(w, idx, gi) ==
    IF PathOf(w.kind)[1] = "mem"
    THEN Raise(w, "MemoryDatasetCanNotBePickledError")
    ELSE [w EXCEPT !.ret = <<"state", [path          |-> PathOf(w.kind),
                                       read_only     |-> w.ro,
                                       index         |-> idx,
                                       group_index   |-> gi,
                                       version_state |-> w.st]>>]

\* a __setstate__ that loads the version state anew
setstate_reload(w, state) ==
    set_derived_attributes([w EXCEPT !.st = state.version_state],
                           state.index, state.group_index, FALSE,
                           state.read_only)

\* Dataset.__setstate__, on a copy of the storage with the same contents:
\* self.__dict__.update(state), then _set_derived_attributes with a
\* version_state that is not empty
setstate(w, state) ==
    set_derived_attributes([w EXCEPT !.st = state.version_state],
                           state.index, state.group_index, TRUE,
                           state.read_only)

\* the while loop of Dataset.log: the nodes it hands to logger.info
RECURSIVE log_walk(_, _)
log_walk(cnm, commit_node) ==
    IF commit_node = NoParent THEN <<>>
    ELSE (IF cnm[commit_node].commit_time THEN <<commit_node>> ELSE <<>>)
             \o log_walk(cnm, cnm[commit_node].parent)

\* a walk that emits every node it visits
log_every_node(w) ==
    LET cnm == w.st.commit_node_map
        up(n) == IF n = NoParent THEN NoParent ELSE cnm[n].parent
        n1 == w.st.commit_node
    IN  [w EXCEPT !.ret = <<"log", SelectSeq(<<n1, up(n1), up(up(n1)), up(up(up(n1)))>>,
                                             LAMBDA n : n # NoParent)>>]

\* Dataset.log
log(w) == [w EXCEPT !.ret = <<"log", log_walk(w.st.commit_node_map, w.st.commit_node)>>]

-----------------------------------------------------------------------------
(* Dataset objects of the caller and the calls made through them *)

\* ds: the opened dataset; gv: ds["g"]; rv: gv.root or gv.parent
Views == {"ds", "gv", "rv", "iv"}

VSOf(v)      == IF v = "rv" THEN "R" ELSE "V"   \* whose version_state
GIOf(v)      == IF v = "gv" THEN G ELSE EMPTY   \* group_index
IndexOf(v)   == index[v]                       \* self.index

commit_id_of(v) == vs[VSOf(v)].commit_id        \* Dataset.commit_id
branch_of(v)    == vs[VSOf(v)].branch           \* Dataset.branch

NoRet == <<"none", 0>>

World(v) ==
    [st |-> vs[VSOf(v)], store |-> store, base |-> base, dirty |-> dirty,
     nextId |-> nextId, changed |-> changed, af |-> autoflush,
     writes |-> {}, sets |-> <<>>, err |-> NONE, ret |-> NoRet,
     obj |-> NoObj,
     kind |-> baseKind, ro |-> readOnly, locks |-> {}]

EntriesOf(m) == Len(m.tensors) + BagCardinality(m.groups)

WithinBounds(w) ==
    /\ w.nextId <= MaxId + 1
    /\ \A k \in DOMAIN w.store : k[1] = "dm" => EntriesOf(w.store[k]) <= MaxEntries

\* commit ids under which the call changed metadata
Touched(w) == { k[2] : k \in { x \in w.writes : x[1] # "vc" } }

Call(op, v, w) ==
    [op |-> op, view |-> v, err |-> w.err, ret |-> w.ret,
     touched  |-> Touched(w),
     preFinal |-> IsFinalized(vs[VSOf(v)])]

\* the call left the dataset as it was
NoEffect(v, w) ==
    /\ w.st = vs[VSOf(v)]
    /\ w.store = store
    /\ w.base = base
    /\ w.dirty = dirty
    /\ w.af = autoflush

\* the writes of the block after a call: storage[key] = value starts the
\* key's history anew, a change of the cached object in place extends it
ScopeRecord(w) ==
    [k \in DOMAIN scopeWrites \cup DOMAIN w.sets |->
        IF k \in DOMAIN w.sets THEN w.sets[k]
        ELSE IF w.store[k] # store[k] THEN scopeWrites[k] \cup {w.store[k]}
        ELSE scopeWrites[k]]

\* no round trip under way
NoTrip == [stage |-> 0, c |-> -1, id |-> -1, to |-> "none"]

ApplyCore(op, v, w) ==
    /\ WithinBounds(w)
    /\ vs'        = [vs EXCEPT ![VSOf(v)] = w.st]
    /\ store'     = w.store
    /\ base'      = w.base
    /\ dirty'     = w.dirty
    /\ autoflush' = w.af
    /\ nextId'    = w.nextId
    /\ changed'   = w.changed
    /\ scopeWrites' = IF scope > 0 THEN ScopeRecord(w) ELSE scopeWrites
    /\ last'      = IF NoEffect(v, w) THEN last ELSE Call(op, v, w)
    /\ lockCalls' = lockCalls \cup w.locks
    /\ UNCHANGED <<baseKind, restored>>
    /\ UNCHANGED lockVars

ApplyW(op, v, w) ==
    /\ ApplyCore(op, v, w)
    /\ trip' = NoTrip

Apply(op, v, w) ==
    /\ ApplyW(op, v, w)
    /\ UNCHANGED <<readOnly, index>>

CreateTensor(v, raw) ==
    /\ v \in open
    /\ Apply("create_tensor", v, create_tensor(World(v), IndexOf(v), GIOf(v), raw))
    /\ UNCHANGED <<open, scope, supplied>>

CreateGroup(v, raw) ==
    /\ v \in open
    /\ Apply("create_group", v, create_group(World(v), IndexOf(v), GIOf(v), raw))
    /\ UNCHANGED <<open, scope, supplied>>

\* the full normalized name a call through view v supplies
FullName(v, raw) == Join(GIOf(v), Normalize(raw))

SuppliedNames == { c[2] : c \in supplied }

\* the same two calls, made with a name no earlier call was given; the call
\* is recorded
NamedCreateTensor(v, raw) ==
    /\ v \in open
    /\ FullName(v, raw) \notin SuppliedNames
    /\ LET w == create_tensor(World(v), IndexOf(v), GIOf(v), raw)
       IN  /\ Apply("create_tensor", v, w)
           /\ supplied' = supplied \cup
                   {<<"tensor", FullName(v, raw), w.err = NONE>>}
    /\ UNCHANGED <<open, scope>>

NamedCreateGroup(v, raw) ==
    /\ v \in open
    /\ FullName(v, raw) \notin SuppliedNames
    /\ LET w == create_group(World(v), IndexOf(v), GIOf(v), raw)
       IN  /\ Apply("create_group", v, w)
           /\ supplied' = supplied \cup
                   {<<"group", FullName(v, raw), w.err = NONE>>}
    /\ UNCHANGED <<open, scope>>

Commit(v) ==
    /\ v \in open
    /\ Apply("commit", v, commit(World(v)))
    /\ UNCHANGED <<open, scope, supplied>>

CheckoutBranch(v, b, create) ==
    /\ v \in open
    /\ Apply("checkout", v, checkout(World(v), "branch", b, create))
    /\ UNCHANGED <<open, scope, supplied>>

CheckoutCommit(v, c) ==
    /\ v \in open
    /\ c \in DOMAIN vs[VSOf(v)].commit_node_map
    /\ Apply("checkout", v, checkout(World(v), "commit", c, FALSE))
    /\ UNCHANGED <<open, scope, supplied>>

\* the round trip c = ds.commit(); id = ds.checkout(b, create=True);
\* ds.checkout(id), each call following the one before it
TripCommit ==
    /\ "ds" \in open
    /\ LET w == commit(World("ds"))
       IN  /\ w.err = NONE
           /\ ApplyCore("commit", "ds", w)
           /\ trip' = [NoTrip EXCEPT !.stage = 1, !.c = w.ret[2]]
    /\ UNCHANGED <<open, scope, supplied, readOnly, index>>

TripBranch(b) ==
    /\ trip.stage = 1
    /\ LET w == checkout(World("ds"), "branch", b, TRUE)
       IN  /\ w.err = NONE
           /\ ApplyCore("checkout", "ds", w)
           /\ trip' = [trip EXCEPT !.stage = 2, !.id = w.ret[2]]
    /\ UNCHANGED <<open, scope, supplied, readOnly, index>>

\* the last call, with the id the checkout returned or with the id the
\* commit returned
TripBack(to) ==
    /\ trip.stage = 2
    /\ LET address == IF to = "id" THEN trip.id ELSE trip.c
           w == checkout(World("ds"), "commit", address, FALSE)
       IN  /\ w.err = NONE
           /\ ApplyCore("checkout", "ds", w)
           /\ trip' = [trip EXCEPT !.stage = 3, !.to = to]
    /\ UNCHANGED <<open, scope, supplied, readOnly, index>>

\* pickle.loads(pickle.dumps(v)): __getstate__ on v, __setstate__ on a new
\* object
Pickle(v) ==
    /\ v \in open
    /\ LET w1 == getstate(World(v), IndexOf(v), GIOf(v))
           w2 == setstate([w1 EXCEPT !.ret = NoRet], w1.ret[2])
       IN  IF w1.err # NONE
           THEN /\ last' = Call("__getstate__", v, w1)
                /\ UNCHANGED restored
           ELSE /\ last' = Call("__setstate__", v, [w2 EXCEPT !.ret = NoRet])
                /\ restored' = IF w2.err # NONE THEN NoState
                               ELSE [w1.ret[2] EXCEPT !.version_state = w2.st]
    /\ UNCHANGED <<vs, store, base, dirty, autoflush, nextId, changed, open,
                   scope, scopeWrites, supplied, baseKind, readOnly, index,
                   lockCalls, trip>>
    /\ UNCHANGED lockVars

\* v.log(); the call is recorded with what it emitted
Log(v) ==
    /\ v \in open
    /\ LET w == log(World(v))
       IN  /\ vs'        = [vs EXCEPT ![VSOf(v)] = w.st]
           /\ store'     = w.store
           /\ base'      = w.base
           /\ dirty'     = w.dirty
           /\ autoflush' = w.af
           /\ nextId'    = w.nextId
           /\ changed'   = w.changed
           /\ last'      = Call("log", v, w)
    /\ UNCHANGED <<open, scope, scopeWrites, supplied>>
    /\ UNCHANGED openVars
    /\ UNCHANGED lockVars

\* ds[item] for a str item; ds["g"] is kept by the caller when it is a group
GetItem(v, item) ==
    /\ v \in open
    /\ LET w == getitem(World(v), IndexOf(v), GIOf(v), item)
       IN  /\ Apply("getitem", v, w)
           /\ open' = IF v = "ds" /\ w.ret = <<"group", G>>
                      THEN open \cup {"gv"} ELSE open
    /\ UNCHANGED <<scope, supplied>>

\* rv = gv.root / rv = gv.parent
Derive(op, w) ==
    /\ WithinBounds(w)
    /\ vs' = [vs EXCEPT !["R"] = w.st]
    /\ autoflush' = w.af
    /\ last' = Call(op, "gv", w)
    /\ open' = open \cup {"rv"}
    /\ lockCalls' = lockCalls \cup w.locks
    /\ UNCHANGED <<store, base, dirty, nextId, changed, scope, scopeWrites,
                   supplied, baseKind, readOnly, index, trip, restored>>
    /\ UNCHANGED lockVars

GetRoot ==
    /\ "gv" \in open
    /\ Derive("root", root(World("gv"), IndexOf("gv"), G))

GetParent ==
    /\ "gv" \in open
    /\ Derive("parent", parent(World("gv"), IndexOf("gv"), G))

\* ds[name].extend(k samples)
Extend(name, k) ==
    /\ "ds" \in open
    /\ TMKey(commit_id_of("ds"), name) \in DOMAIN store
    /\ store[TMKey(commit_id_of("ds"), name)].length + k <= MaxLen
    /\ Apply("extend", "ds", extend(World("ds"), name, k))
    /\ UNCHANGED <<open, scope, supplied>>

\* list(v): the views the iteration yields
Iterate(v) ==
    /\ v \in open
    /\ LET w == dataset_iter(World(v), IndexOf(v), GIOf(v))
       IN  /\ WithinBounds(w)
           /\ vs'        = [vs EXCEPT ![VSOf(v)] = w.st]
           /\ store'     = w.store
           /\ base'      = w.base
           /\ dirty'     = w.dirty
           /\ autoflush' = w.af
           /\ nextId'    = w.nextId
           /\ changed'   = w.changed
           /\ last'      = Call("__iter__", v, w)
    /\ UNCHANGED <<open, scope, scopeWrites, supplied>>
    /\ UNCHANGED openVars
    /\ UNCHANGED lockVars

\* iv = v[item] for an int or slice item
Subscript(v, item) ==
    /\ v \in open \cap {"ds", "iv"}
    /\ \E k \in DOMAIN index[v] : index[v][k][1] # "int"
    /\ LET w == getitem_index(World(v), IndexOf(v), GIOf(v), item)
       IN  /\ ApplyW("getitem", v, w)
           /\ open' = IF w.err = NONE THEN open \cup {"iv"} ELSE open
           /\ index' = IF w.err = NONE
                       THEN [index EXCEPT !["iv"] = w.ret[2]]
                       ELSE index
    /\ UNCHANGED <<scope, supplied, readOnly>>

\* Dataset.__enter__
enter(w) == [w EXCEPT !.af = FALSE]

Enter(v) ==
    /\ v \in open
    /\ scope < MaxScope
    /\ LET w == enter(World(v))
       IN  /\ autoflush' = w.af
           /\ last' = Call("__enter__", v, w)
    /\ scope' = scope + 1
    /\ scopeWrites' = IF scope = 0 THEN <<>> ELSE scopeWrites
    /\ UNCHANGED <<vs, store, base, dirty, nextId, changed, open, supplied>>
    /\ UNCHANGED openVars
    /\ UNCHANGED lockVars

\* Dataset.flush
flush(w) == FlushW(w)

\* __exit__ that turns autoflush back on and leaves the flush out
exit_without_flush(w) == [w EXCEPT !.af = TRUE]

\* Dataset.__exit__
exit(w) == flush([w EXCEPT !.af = TRUE])

Exit(v) ==
    /\ v \in open
    /\ scope > 0
    /\ LET w == exit(World(v))
       IN  /\ autoflush' = w.af
           /\ base' = w.base
           /\ dirty' = w.dirty
           /\ last' = Call("__exit__", v, w)
    /\ scope' = scope - 1
    /\ UNCHANGED <<vs, store, nextId, changed, open, scopeWrites, supplied>>
    /\ UNCHANGED openVars
    /\ UNCHANGED lockVars

\* the cache drops a dirty entry: it is written to the base tier first
Evict(k) ==
    /\ k \in dirty
    /\ base' = Put(base, k, store[k])
    /\ dirty' = dirty \ {k}
    /\ UNCHANGED <<vs, store, autoflush, nextId, changed, open, scope,
                   scopeWrites, supplied, last>>
    /\ UNCHANGED openVars
    /\ UNCHANGED lockVars

UserBranches == {"main", "alt"}

InitVersioned ==
    LET w0 == [st |-> FreshVersionState, store |-> <<>>, base |-> <<>>,
               dirty |-> {}, nextId |-> 1, changed |-> {}, af |-> FALSE,
               writes |-> {}, sets |-> <<>>, err |-> NONE, ret |-> NoRet,
     obj |-> NoObj,
               kind |-> "local", ro |-> FALSE, locks |-> {}]
        w  == dataset_init(w0, NoIndex, EMPTY, FALSE, FALSE)
    IN  /\ vs = [x \in {"V", "R"} |-> w.st]
        /\ store = w.store
        /\ base = w.base
        /\ dirty = w.dirty
        /\ autoflush = w.af
        /\ nextId = w.nextId
        /\ changed = w.changed
        /\ open = {"ds"}
        /\ scope = 0
        /\ scopeWrites = <<>>
        /\ supplied = {}
        /\ baseKind = w.kind
        /\ readOnly = w.ro
        /\ index = [v \in Views |-> ALL]
        /\ lockCalls = w.locks
        /\ trip = NoTrip
        /\ restored = NoState
        /\ last = [op |-> "__init__", view |-> "ds", err |-> w.err,
                   ret |-> NoRet, touched |-> Touched(w), preFinal |-> FALSE]

-----------------------------------------------------------------------------
(* The write lock of a dataset on S3: hub.core.lock and Dataset.__init__ *)

\* Dataset objects constructed on the same S3 location
Handles == {"A", "B"}

\* hub.constants.DELETE_SAFETY_SIZE, in GB
DELETE_SAFETY_SIZE == 1

Closed ==
    [state |-> "closed", read_only |-> FALSE, storage_ro |-> FALSE,
     monitor |-> FALSE, callbacks |-> 0, warned |-> FALSE, info |-> FALSE,
     pc |-> "idle", err |-> NONE]

\* a setter that only records the flag
set_flag_only(o, value) == [o EXCEPT !.read_only = value]

\* the read_only setter: storage.enable_readonly(), then self._read_only
set_read_only(o, value) == [o EXCEPT !.storage_ro = value, !.read_only = value]

\* Dataset._lock_lost_handler
lock_lost_handler(o) == [set_read_only(o, TRUE) EXCEPT !.warned = TRUE]

\* the callback Dataset.__init__ hands to lock(): lambda: self._lock_lost_handler
\* evaluates the bound method and returns it, the handler is not called
lock_lost_callback(o) == o

\* lock(storage, callback) fails while the marker belongs to someone else
\* and has not expired
Locked(d) == lockOwner \notin {NONE, d} /\ ~lockExpired

\* the lock step of Dataset.__init__ on S3 storage with index None: the
\* object after it, and whether lock() was acquired
init_lock(d, read_only) ==
    LET o == [Closed EXCEPT !.state = "open", !.read_only = read_only,
                            !.storage_ro = read_only]
    IN  IF read_only THEN [obj |-> o, acquired |-> FALSE]
        ELSE IF Locked(d)
        THEN [obj |-> [set_read_only(o, TRUE) EXCEPT !.warned = TRUE],
              acquired |-> FALSE]
        ELSE [obj |-> [o EXCEPT !.monitor = TRUE], acquired |-> TRUE]

\* Dataset.__init__ on S3 storage with a trivial index: the lock step, then
\* _populate_meta on a location that holds a dataset or nothing
Open(d, read_only) ==
    /\ dsobj[d].state = "closed"
    /\ LET r == init_lock(d, read_only)
       IN  /\ IF r.acquired
              THEN lockOwner' = d /\ lockExpired' = FALSE
              ELSE UNCHANGED <<lockOwner, lockExpired>>
           /\ IF s3Dataset
              THEN /\ dsobj' = [dsobj EXCEPT ![d] = r.obj]
                   /\ UNCHANGED s3Dataset
              ELSE IF r.obj.read_only
              THEN /\ dsobj' = [dsobj EXCEPT ![d] =
                                   [Closed EXCEPT !.warned = r.obj.warned,
                                       !.err = "CouldNotCreateNewDatasetException"]]
                   /\ UNCHANGED s3Dataset
              ELSE /\ dsobj' = [dsobj EXCEPT ![d] = r.obj]
                   /\ s3Dataset' = TRUE
    /\ UNCHANGED storageObj
    /\ UNCHANGED verVars

\* the holder was too slow to update the marker
Expire ==
    /\ lockOwner # NONE
    /\ ~lockExpired
    /\ lockExpired' = TRUE
    /\ UNCHANGED <<lockOwner, dsobj, storageObj, s3Dataset>>
    /\ UNCHANGED verVars

\* the monitor of the holder re-validates and updates the marker
Heartbeat(d) ==
    /\ dsobj[d].monitor
    /\ lockOwner = d
    /\ lockExpired
    /\ lockExpired' = FALSE
    /\ UNCHANGED <<lockOwner, dsobj, storageObj, s3Dataset>>
    /\ UNCHANGED verVars

\* the monitor finds the marker gone or owned by someone else: it invokes
\* the loss callback once and stops
MonitorLoss(d) ==
    /\ dsobj[d].monitor
    /\ lockOwner # d
    /\ dsobj' = [dsobj EXCEPT ![d] =
                    [lock_lost_callback(@) EXCEPT !.monitor = FALSE,
                                                  !.callbacks = @ + 1]]
    /\ UNCHANGED <<lockOwner, lockExpired, storageObj, s3Dataset>>
    /\ UNCHANGED verVars

\* a mutating storage call: check_readonly, then the write
WriteBegin(d) ==
    /\ dsobj[d].state = "open"
    /\ dsobj[d].pc = "idle"
    /\ storageObj < MaxSize
    /\ dsobj' = [dsobj EXCEPT ![d] =
                    IF @.storage_ro THEN [@ EXCEPT !.err = "ReadOnlyError"]
                    ELSE [@ EXCEPT !.pc = "writing", !.err = NONE]]
    /\ UNCHANGED <<lockOwner, lockExpired, storageObj, s3Dataset>>
    /\ UNCHANGED verVars

WriteEnd(d) ==
    /\ dsobj[d].pc = "writing"
    /\ dsobj' = [dsobj EXCEPT ![d].pc = "idle"]
    /\ storageObj' = storageObj + 1
    /\ UNCHANGED <<lockOwner, lockExpired, s3Dataset>>
    /\ UNCHANGED verVars

\* Dataset.size_approx, in GB
size_approx == storageObj

\* unlock(storage): the marker is removed if this object holds it
unlock(d) == IF lockOwner = d THEN NONE ELSE lockOwner

\* a delete that does not look at the size
delete_any_size(d, large_ok) ==
    /\ dsobj[d].state = "open"
    /\ dsobj[d].pc = "idle"
    /\ lockOwner' = unlock(d)
    /\ lockExpired' = IF lockOwner = d THEN FALSE ELSE lockExpired
    /\ dsobj' = [dsobj EXCEPT ![d].monitor = FALSE, ![d].pc = "clearing"]
    /\ UNCHANGED <<storageObj, s3Dataset>>
    /\ UNCHANGED verVars

\* Dataset.delete up to unlock(self.storage): a dataset too large is
\* reported with logger.info and left alone
Delete(d, large_ok) ==
    /\ dsobj[d].state = "open"
    /\ dsobj[d].pc = "idle"
    /\ IF ~large_ok /\ size_approx > DELETE_SAFETY_SIZE
       THEN /\ dsobj' = [dsobj EXCEPT ![d].info = TRUE]
            /\ UNCHANGED <<lockOwner, lockExpired, storageObj, s3Dataset>>
       ELSE /\ lockOwner' = unlock(d)
            /\ lockExpired' = IF lockOwner = d THEN FALSE ELSE lockExpired
            /\ dsobj' = [dsobj EXCEPT ![d].monitor = FALSE,
                                      ![d].pc = "clearing"]
            /\ UNCHANGED <<storageObj, s3Dataset>>
    /\ UNCHANGED verVars

\* Dataset.delete: self.storage.clear()
Clear(d) ==
    /\ dsobj[d].pc = "clearing"
    /\ IF dsobj[d].storage_ro
       THEN /\ dsobj' = [dsobj EXCEPT ![d].pc = "idle",
                                      ![d].err = "ReadOnlyError"]
            /\ UNCHANGED <<storageObj, s3Dataset>>
       ELSE /\ dsobj' = [dsobj EXCEPT ![d].pc = "idle", ![d].err = NONE]
            /\ storageObj' = 0
            /\ s3Dataset' = FALSE
    /\ UNCHANGED <<lockOwner, lockExpired>>
    /\ UNCHANGED verVars

InitLockIdle ==
    /\ lockOwner = NONE
    /\ lockExpired = FALSE
    /\ dsobj = [d \in Handles |-> Closed]
    /\ storageObj = 0
    /\ s3Dataset = FALSE

Init == InitVersioned /\ InitLockIdle

NextLock ==
    \/ \E d \in Handles, ro \in BOOLEAN : Open(d, ro)
    \/ Expire
    \/ \E d \in Handles : Heartbeat(d)
    \/ \E d \in Handles : MonitorLoss(d)
    \/ \E d \in Handles : WriteBegin(d)
    \/ \E d \in Handles : WriteEnd(d)
    \/ \E d \in Handles, large_ok \in BOOLEAN : Delete(d, large_ok)
    \/ \E d \in Handles : Clear(d)

SpecLock == Init /\ [][NextLock]_vars

-----------------------------------------------------------------------------
(* Construction: Dataset(storage, read_only) on a storage location *)

BaseKinds == {"s3", "local", "mem"}

\* a location that holds something that is not a dataset
ForeignFiles == [k \in {<<"file", 0, X>>} |-> EmptyMeta]

\* a location that holds a dataset with the group g
StoredDataset ==
    LET w0 == [st |-> FreshVersionState, store |-> <<>>, base |-> <<>>,
               dirty |-> {}, nextId |-> 1, changed |-> {}, af |-> FALSE,
               writes |-> {}, sets |-> <<>>, err |-> NONE, ret |-> NoRet,
     obj |-> NoObj,
               kind |-> "local", ro |-> FALSE, locks |-> {}]
        w1 == dataset_init(w0, NoIndex, EMPTY, FALSE, FALSE)
    IN  FlushW(create_group(w1, ALL, EMPTY, G)).base

Locations == {<<>>, ForeignFiles, StoredDataset}

NoCall ==
    [op |-> "none", view |-> "ds", err |-> NONE, ret |-> NoRet,
     touched |-> {}, preFinal |-> FALSE]

InitUnopened ==
    /\ baseKind \in BaseKinds
    /\ base \in Locations
    /\ store = base
    /\ vs = [x \in {"V", "R"} |-> FreshVersionState]
    /\ dirty = {}
    /\ autoflush = FALSE
    /\ nextId = 1
    /\ changed = {}
    /\ open = {}
    /\ scope = 0
    /\ scopeWrites = <<>>
    /\ supplied = {}
    /\ readOnly = FALSE
    /\ index = [v \in Views |-> ALL]
    /\ lockCalls = {}
    /\ trip = NoTrip
    /\ restored = NoState
    /\ last = NoCall
    /\ InitLockIdle

\* ds = Dataset(storage, read_only=read_only)
Construct(read_only) ==
    /\ open = {}
    /\ LET w == dataset_init([World("ds") EXCEPT !.ro = read_only],
                             NoIndex, EMPTY, read_only, FALSE)
       IN  /\ WithinBounds(w)
           /\ vs' = [x \in {"V", "R"} |-> w.st]
           /\ store' = w.store
           /\ base' = w.base
           /\ dirty' = w.dirty
           /\ autoflush' = w.af
           /\ nextId' = w.nextId
           /\ changed' = w.changed
           /\ lockCalls' = lockCalls \cup w.locks
           /\ last' = [Call("__init__", "ds", w) EXCEPT !.preFinal = FALSE]
           /\ open' = IF w.err = NONE THEN {"ds"} ELSE open
           /\ readOnly' = IF w.err = NONE THEN read_only ELSE readOnly
    /\ UNCHANGED <<scope, scopeWrites, supplied, baseKind, index, trip,
                   restored>>
    /\ UNCHANGED lockVars

\* the selectors of ds[item]
Items == {IntEntry(1), SliceEntry(2, 8), SliceEntry(0, 4)}

NextOpen ==
    \/ \E read_only \in BOOLEAN : Construct(read_only)
    \/ \E v \in {"ds", "gv"} : GetItem(v, G)
    \/ GetRoot
    \/ GetParent
    \/ \E v \in {"ds", "iv"}, item \in Items : Subscript(v, item)
    \/ ~readOnly /\ \E raw \in {G, X} : CreateGroup("ds", raw)
    \/ ~readOnly /\ CreateTensor("ds", X)

SpecOpen == InitUnopened /\ [][NextOpen]_vars

\* serialized state: datasets and views at several version states
NextPickle ==
    \/ \E read_only \in BOOLEAN : Construct(read_only)
    \/ GetItem("ds", G)
    \/ Subscript("ds", SliceEntry(2, 8))
    \/ GetRoot
    \/ ~readOnly /\ CreateGroup("ds", G)
    \/ ~readOnly /\ Commit("ds")
    \/ ~readOnly /\ CheckoutBranch("ds", "alt", TRUE)
    \/ \E v \in Views : Pickle(v)

SpecPickle == InitUnopened /\ [][NextPickle]_vars

\* commit / checkout round trips between other calls
NextTrip ==
    \/ \E raw \in {G, GX} : CreateGroup("ds", raw)
    \/ \E raw \in {X, GX} : CreateTensor("ds", raw)
    \/ CreateTensor("gv", X)
    \/ GetItem("ds", G)
    \/ Commit("ds")
    \/ \E b \in UserBranches : CheckoutBranch("ds", b, FALSE)
    \/ \E c \in 0..MaxId : CheckoutCommit("ds", c)
    \/ TripCommit
    \/ \E b \in UserBranches : TripBranch(b)
    \/ \E to \in {"id", "c"} : TripBack(to)

SpecTrip == Init /\ [][NextTrip]_vars

\* names passed through a view
RawFor(v) ==
    IF v = "ds" THEN {G, GX, <<"g", "/", "/", "x">>, INFO}
    ELSE {X, <<"/", "x">>}

\* the namespace and the commit graph, through the dataset and a group view
Next ==
    \/ \E v \in {"ds", "gv"} : \E raw \in RawFor(v) : CreateTensor(v, raw)
    \/ \E v \in {"ds", "gv"} : \E raw \in RawFor(v) : CreateGroup(v, raw)
    \/ Commit("ds")
    \/ \E b \in UserBranches, create \in BOOLEAN : CheckoutBranch("ds", b, create)
    \/ \E c \in 0..MaxId : CheckoutCommit("ds", c)
    \/ \E item \in {G, GX} : GetItem("ds", item)

Spec == Init /\ [][Next]_vars

\* every view of the dataset, and the version state each reports
NextViews ==
    \/ CreateGroup("ds", G)
    \/ GetItem("ds", G)
    \/ GetRoot
    \/ GetParent
    \/ \E v \in Views : Commit(v)
    \/ \E v \in Views, b \in UserBranches, create \in BOOLEAN : CheckoutBranch(v, b, create)
    \/ \E v \in Views, c \in 0..MaxId : CheckoutCommit(v, c)
    \/ \E v \in Views : Log(v)

SpecViews == Init /\ [][NextViews]_vars

\* scoped writes: with ds: ...
NextScope ==
    \/ \E raw \in {G, GX} : CreateTensor("ds", raw)
    \/ \E raw \in {G, GX} : CreateGroup("ds", raw)
    \/ CreateTensor("gv", X)
    \/ GetItem("ds", G)
    \/ Commit("ds")
    \/ \E v \in {"ds", "gv"} : Enter(v)
    \/ \E v \in {"ds", "gv"} : Exit(v)
    \/ \E k \in dirty : Evict(k)

SpecScope == Init /\ [][NextScope]_vars

\* the namespace built by calls with pairwise distinct normalized names
NextNames ==
    \/ \E raw \in {G, GX, GXY, INFO} : NamedCreateTensor("ds", raw)
    \/ \E raw \in {G, GX, <<"g", "/", "/", "x">>} : NamedCreateGroup("ds", raw)
    \/ \E raw \in {X, <<"/", "x">>} : NamedCreateTensor("gv", raw)
    \/ \E raw \in {X, <<"/", "x">>} : NamedCreateGroup("gv", raw)
    \/ GetItem("ds", G)

SpecNames == Init /\ [][NextNames]_vars

\* the names of ds[name]: a tensor, groups, a missing name, a tensor as
\* the head, and names with a trailing, repeated or leading "/"
LookupNames ==
    {X, G, GX, <<"y">>, <<"x", "/", "y">>, <<"g", "/">>,
     <<"g", "/", "/", "x">>, <<"/", "x">>, <<"/">>}

\* lookups by name through every view, on namespaces built through the
\* dataset and through the root of a group view
NextLookup ==
    \/ \E raw \in {X, GX} : CreateTensor("ds", raw)
    \/ CreateGroup("ds", G)
    \/ CreateGroup("rv", X)
    \/ GetRoot
    \/ Subscript("ds", SliceEntry(2, 8))
    \/ Commit("ds")
    \/ \E v \in Views, item \in LookupNames : GetItem(v, item)

SpecLookup == Init /\ [][NextLookup]_vars

\* the commit graph of the dataset and of a root view opened on the stored
\* version info
NextGraph ==
    \/ CreateTensor("ds", X)
    \/ CreateGroup("ds", G)
    \/ GetItem("ds", G)
    \/ GetRoot
    \/ \E v \in {"ds", "rv"} : Commit(v)
    \/ \E b \in UserBranches, create \in BOOLEAN : CheckoutBranch("ds", b, create)
    \/ \E c \in 0..MaxId : CheckoutCommit("ds", c)

SpecGraph == Init /\ [][NextGraph]_vars

\* iteration over the dataset, a group view and index views, with tensors
\* of several lengths inside and outside the group
NextIter ==
    \/ \E raw \in {X, GX} : CreateTensor("ds", raw)
    \/ GetItem("ds", G)
    \/ \E v \in {"ds", "iv"}, item \in {SliceEntry(2, 8), SliceEntry(0, 4)} :
            Subscript(v, item)
    \/ \E name \in {X, GX}, k \in {4, 5} : Extend(name, k)
    \/ \E v \in Views : Iterate(v)

SpecIter == Init /\ [][NextIter]_vars

\* views made and used inside and outside scoped-write blocks
NextFlush ==
    \/ CreateGroup("ds", G)
    \/ GetItem("ds", G)
    \/ GetRoot
    \/ GetParent
    \/ \E v \in {"ds", "gv"} : CreateTensor(v, X)
    \/ CreateGroup("gv", X)
    \/ Subscript("ds", SliceEntry(2, 8))
    \/ \E v \in {"ds", "gv"} : Enter(v)
    \/ \E v \in {"ds", "gv"} : Exit(v)

SpecFlush == Init /\ [][NextFlush]_vars

-----------------------------------------------------------------------------
(* Properties *)

\* the namespace snapshot a view is positioned at
NamespaceOf(v) == store[DMKey(commit_id_of(v))]
TensorSet(m)   == Range(m.tensors)
GroupSet(m)    == BagToSet(m.groups)

\* C1: a successful create_tensor made while the current commit node is
\* finalized moves the version state to a new uncommitted node (commit_id and
\* branch differ from those before the call), every metadata write of the
\* call is keyed by the new commit_id, and the finalized node and its
\* namespace snapshot are the same after the call as before.
C1_CreateTensorLeavesFinalizedCommit ==
    [][\A v \in {"ds", "gv"} : \A raw \in RawFor(v) :
        LET w   == create_tensor(World(v), IndexOf(v), GIOf(v), raw)
            old == vs["V"].commit_id
        IN  (CreateTensor(v, raw) /\ IsFinalized(vs["V"]) /\ w.err = NONE) =>
                /\ vs'["V"].commit_id # old
                /\ vs'["V"].branch # vs["V"].branch
                /\ ~IsFinalized(vs'["V"])
                /\ Touched(w) \subseteq {vs'["V"].commit_id}
                /\ vs'["V"].commit_node_map[old] = vs["V"].commit_node_map[old]
                /\ store'[DMKey(old)] = store[DMKey(old)]
    ]_vars

\* C2: create_group invoked while the current commit node is finalized
\* checks out automatically first: the group names are written under a new
\* uncommitted commit_id and the finalized commit's group set is unchanged.
C2_CreateGroupLeavesFinalizedCommit ==
    [][\A v \in {"ds", "gv"} : \A raw \in RawFor(v) :
        LET w   == create_group(World(v), IndexOf(v), GIOf(v), raw)
            old == vs["V"].commit_id
        IN  (CreateGroup(v, raw) /\ IsFinalized(vs["V"]) /\ w.err = NONE) =>
                /\ vs'["V"].commit_id # old
                /\ ~IsFinalized(vs'["V"])
                /\ Touched(w) \subseteq {vs'["V"].commit_id}
                /\ GroupSet(store'[DMKey(old)]) = GroupSet(store[DMKey(old)])
    ]_vars

\* C3: at most one Dataset object opened on the same S3 location is writable
\* (read_only false): two are writable together only while the monitor of
\* one of them has not yet reported the loss of its lock.
Writable(d) == dsobj[d].state = "open" /\ ~dsobj[d].read_only

LossPending(d) == dsobj[d].monitor /\ lockOwner # d

C3_SingleWriter ==
    \A d1, d2 \in Handles :
        (d1 # d2 /\ Writable(d1) /\ Writable(d2)) =>
            LossPending(d1) \/ LossPending(d2)

\* C4: once the lock monitor has invoked the loss callback of a Dataset, its
\* read_only flag is true and its storage is in read-only mode (so every
\* later mutating storage call fails as read-only); a write in flight is
\* not aborted.
C4_LockLossMakesReadOnly ==
    \A d \in Handles :
        dsobj[d].callbacks > 0 => dsobj[d].read_only /\ dsobj[d].storage_ro

\* the proper ancestors of a path: a/b/c has a/b and a
RECURSIVE Ancestors(_)
Ancestors(p) ==
    IF ~HasSlash(p) THEN {}
    ELSE LET d == Split(p)[1] IN {d} \cup Ancestors(d)

Returned(kind) == { c[2] : c \in { x \in supplied : x[1] = kind /\ x[3] } }

\* C5: after any sequence of create_tensor / create_group calls with pairwise
\* distinct normalized names, the tensor set and the group set of the
\* namespace are disjoint, the tensor set is exactly the names given to the
\* create_tensor calls that returned, and the group set is exactly the names
\* given to the create_group calls that returned together with the ancestor
\* groups of the names created.
C5_NamespaceMatchesSuppliedNames ==
    LET ns == NamespaceOf("ds")
        made == Returned("tensor") \cup Returned("group")
    IN  /\ TensorSet(ns) \cap GroupSet(ns) = {}
        /\ TensorSet(ns) = Returned("tensor")
        /\ GroupSet(ns) =
               Returned("group") \cup UNION { Ancestors(p) : p \in made }

\* C6: names are unique across the namespace and the error names the kind of
\* the existing entry: where a tensor exists at the normalized path p,
\* create_tensor(p) and create_group(p) raise TensorAlreadyExistsError; where
\* a group exists at p, both raise TensorGroupAlreadyExistsError.  Raw names
\* with the same normalization are the same name.
C6_ErrorNamesExistingKind ==
    \A raw \in RawFor("ds") :
        LET p  == Normalize(raw)
            ns == NamespaceOf("ds")
            t  == create_tensor(World("ds"), IndexOf("ds"), EMPTY, raw)
            g  == create_group(World("ds"), IndexOf("ds"), EMPTY, raw)
        IN  /\ p \in TensorSet(ns) =>
                /\ t.err = "TensorAlreadyExistsError"
                /\ g.err = "TensorAlreadyExistsError"
            /\ (p \in GroupSet(ns) /\ p \notin TensorSet(ns)) =>
                /\ t.err = "TensorGroupAlreadyExistsError"
                /\ g.err = "TensorGroupAlreadyExistsError"

\* C7: create_tensor(name) and create_group(name) called on the group view
\* with group path g record g/name in the namespace of the commit the view
\* is positioned at, whatever its branch, and change no other commit's
\* namespace.
C7_GroupViewCreatesAtOwnCommit ==
    [][LET t   == create_tensor(World("gv"), IndexOf("gv"), G, X)
           g   == create_group(World("gv"), IndexOf("gv"), G, X)
           cid == vs'["V"].commit_id
           others == { c \in 0..MaxId : c # cid /\ DMKey(c) \in DOMAIN store }
       IN  /\ (CreateTensor("gv", X) /\ t.err = NONE) =>
               /\ GX \in TensorSet(store'[DMKey(cid)])
               /\ \A c \in others : store'[DMKey(c)] = store[DMKey(c)]
           /\ (CreateGroup("gv", X) /\ g.err = NONE) =>
               /\ GX \in GroupSet(store'[DMKey(cid)])
               /\ \A c \in others : store'[DMKey(c)] = store[DMKey(c)]
    ]_vars

\* C8: every view derived from the dataset (by group name, and the parent and
\* root of a group view) reports the commit_id and branch the dataset
\* reports, after any commits and checkouts made through any of them.
C8_ViewsShareVersionState ==
    \A v \in open :
        /\ commit_id_of(v) = commit_id_of("ds")
        /\ branch_of(v) = branch_of("ds")

\* C9: Dataset.commit returns the id of the node this call finalized, and
\* the current commit_id is afterwards a fresh uncommitted child of the
\* returned commit, also when the call checked out automatically first.
C9_CommitReturnsStoredCommit ==
    (last.op = "commit" /\ last.err = NONE) =>
        LET st == vs[VSOf(last.view)]
            c  == last.ret[2]
        IN  /\ st.commit_node_map[c].commit_time
            /\ ~IsFinalized(st)
            /\ st.commit_node_map[st.commit_id].parent = c

\* C10: when __exit__ has returned, autoflush is true, no key is dirty and
\* the base tier alone holds every key written inside the block, with the
\* value the cache holds.
C10_ScopedWritesDurable ==
    last.op = "__exit__" =>
        /\ autoflush
        /\ dirty = {}
        /\ \A k \in DOMAIN scopeWrites :
                k \in DOMAIN base /\ base[k] \in scopeWrites[k]

\* a block with at least two writes has ended
C10_Witness ==
    /\ last.op = "__exit__"
    /\ scope = 0
    /\ Cardinality(DOMAIN scopeWrites) >= 2

\* inside the block the base tier lacks a write
C10_NotYetDurable ==
    /\ scope > 0
    /\ \E k \in DOMAIN scopeWrites : k \notin DOMAIN base

\* C12: lock() is called only by the construction of a whole dataset for
\* write on S3 base storage: never with read_only true, never on local or
\* in-memory storage, never by the construction of a view (subscript by an
\* index or a group name, parent, root).
C12_LockOnlyForWritableS3Dataset ==
    [][lockCalls' # lockCalls =>
          /\ baseKind = "s3"
          /\ open = {}
          /\ Construct(FALSE)]_vars

C12_Witness ==
    /\ lockCalls # {}
    /\ baseKind = "s3"
    /\ {"ds", "gv", "rv", "iv"} \subseteq open

\* C13: a successful create_group(p) adds p and every proper ancestor of p to
\* the group set and nothing else, and the group set holds no entry twice,
\* also when some ancestors were groups already.  The group set is the one
\* of the commit the call writes to: the current commit for a call on the
\* dataset itself; p is the full normalized name.
C13_GroupAndAncestorsAddedOnce ==
    [][\A v \in {"ds", "gv"} : \A raw \in RawFor(v) :
        LET w   == create_group(World(v), IndexOf(v), GIOf(v), raw)
            p   == Normalize(IF GIOf(v) = EMPTY THEN raw ELSE Join(GIOf(v), raw))
        IN  (/\ last'.op = "create_group"
             /\ last'.view = v
             /\ CreateGroup(v, raw)
             /\ w.err = NONE) =>
                /\ Touched(w) # {}
                /\ v = "ds" => Touched(w) = {vs["V"].commit_id}
                /\ \A cid \in Touched(w) :
                     LET old == store[DMKey(cid)]
                         new == store'[DMKey(cid)]
                     IN  /\ GroupSet(new) = GroupSet(old) \cup {p} \cup Ancestors(p)
                         /\ \A x \in GroupSet(new) : CopiesIn(x, new.groups) = 1
                         /\ new.tensors = old.tensors
    ]_vars

C13_Witness ==
    /\ last.op = "create_group"
    /\ last.err = NONE
    /\ last.ret = <<"group", GX>>
    /\ last.touched = {1}
    /\ G \in GroupSet(store[DMKey(0)])
    /\ GX \notin GroupSet(store[DMKey(0)])
    /\ {G, GX} \subseteq GroupSet(store[DMKey(1)])

\* C14: after c = commit(); id = checkout(other_branch, create=True);
\* checkout(id), the current commit_id equals c, the id the commit returned.
C14_RoundTripRestoresCommit ==
    (trip.stage = 3 /\ trip.to = "id") => vs["V"].commit_id = trip.c

\* C14 as the code has it: the checkout that creates the branch returns the
\* id of the new branch's node, which is not c, and checkout(id) leaves the
\* dataset there; checkout(c) in its place makes the current commit_id c.
C14_RoundTripRestoresCheckedOutId ==
    /\ (trip.stage = 3 /\ trip.to = "id") =>
           vs["V"].commit_id = trip.id /\ trip.id # trip.c
    /\ (trip.stage = 3 /\ trip.to = "c") => vs["V"].commit_id = trip.c

C14_Witness ==
    /\ trip.stage = 3
    /\ trip.to = "c"
    /\ vs["V"].branch = "main"
    /\ trip.id = vs["V"].branch_commit_map["alt"]

\* the branches of the version state and of the stored version-control info
BranchesOf(st, sto) ==
    DOMAIN st.branch_commit_map \cup
        (IF VCKey \in DOMAIN sto THEN DOMAIN sto[VCKey].branch_commit_map ELSE {})

\* auto_checkout called twice in a row leaves what the first call left
AutoCheckoutTwice ==
    \A v \in open :
        LET w1 == auto_checkout(World(v))
            w2 == auto_checkout(w1)
        IN  /\ w2.st = w1.st
            /\ w2.store = w1.store
            /\ w2.nextId = w1.nextId

\* a create_tensor that follows a create_tensor creates no branch
SecondCreateTensorMakesNoBranch ==
    \A v \in {"ds", "gv"} : \A raw \in RawFor(v) \cup {X} :
        (last.op = "create_tensor" /\ CreateTensor(v, raw)) =>
            /\ BranchesOf(vs'["V"], store') = BranchesOf(vs["V"], store)
            /\ nextId' = nextId

\* C15: auto_checkout is idempotent: from any reachable version state,
\* calling it twice in a row leaves commit_id, branch and the commit graph
\* after the second call equal to those after the first; consequently two
\* consecutive create_tensor calls create at most one automatic branch.
C15_AutoCheckoutIdempotent ==
    []AutoCheckoutTwice /\ [][SecondCreateTensorMakesNoBranch]_vars

C15_Witness ==
    LET st == vs["V"]
        up == st.commit_node_map[st.commit_id].parent
    IN  /\ last.op = "create_tensor"
        /\ last.err = NONE
        /\ ~last.preFinal
        /\ \E n \in 1..MaxId : st.branch = AutoBranch(n)
        /\ up # NoParent
        /\ Len(store[DMKey(st.commit_id)].tensors) = Len(store[DMKey(up)].tensors) + 2

\* the node k parent links above n, NoParent beyond the root
RECURSIVE Up(_, _, _)
Up(cnm, n, k) ==
    IF k = 0 \/ n = NoParent THEN n ELSE Up(cnm, cnm[n].parent, k - 1)

\* the nodes from n to the root, as far as the parent links lead within
\* as many steps as there are nodes
PathToRoot(cnm, n) ==
    SelectSeq([k \in 1..Cardinality(DOMAIN cnm) |-> Up(cnm, n, k - 1)],
              LAMBDA x : x # NoParent)

Stamped(cnm, path) == SelectSeq(path, LAMBDA x : cnm[x].commit_time)

\* C16: log() visits the current node and then each parent in turn up to the
\* root, emits exactly the visited nodes whose commit_time is set, in that
\* order (the uncommitted working node is skipped), changes no version
\* state, and terminates for every reachable commit graph.
C16_LogEmitsStampedAncestors ==
    [][\A v \in Views :
          Log(v) =>
              LET st  == vs[VSOf(v)]
                  cnm == st.commit_node_map
              IN  /\ Up(cnm, st.commit_node, Cardinality(DOMAIN cnm)) = NoParent
                  /\ last'.ret = <<"log", Stamped(cnm, PathToRoot(cnm, st.commit_node))>>
                  /\ ~IsFinalized(st) => \A i \in DOMAIN last'.ret[2] :
                                             last'.ret[2][i] # st.commit_id
                  /\ vs' = vs
                  /\ store' = store /\ base' = base /\ dirty' = dirty]_vars

C16_Witness ==
    /\ last.op = "log"
    /\ Len(last.ret[2]) = 2
    /\ ~IsFinalized(vs[VSOf(last.view)])
    /\ vs[VSOf(last.view)].commit_node_map[vs[VSOf(last.view)].commit_id].parent
           = last.ret[2][1]

\* the sample positions the first axis of an index selects in a dataset of
\* n samples
Rows(idx, n) ==
    LET e == idx[1]
    IN  IF e[1] = "all" THEN [k \in 1..n |-> k - 1]
        ELSE IF e[1] = "int" THEN <<e[2]>>
        ELSE [k \in 1..(Min(e[3], n) - Min(e[2], n)) |-> e[2] + k - 1]

\* what a selector picks from a sequence of positions
Pick(rows, item) ==
    IF item[1] = "int" THEN <<rows[item[2] + 1]>>
    ELSE SubSeq(rows, item[2] + 1, Min(item[3], Len(rows)))

InRange(rows, item) == item[1] = "int" => item[2] < Len(rows)

C19_PickleRestoresView ==
    [][\A v \in Views :
          Pickle(v) =>
              IF baseKind = "mem"
              THEN /\ last'.err = "MemoryDatasetCanNotBePickledError"
                   /\ restored' = restored
              ELSE LET st == vs[VSOf(v)]
                       rs == restored'.version_state
                   IN  /\ last'.err = NONE
                       /\ restored'.path = PathOf(baseKind)
                       /\ restored'.read_only = readOnly
                       /\ restored'.index = index[v]
                       /\ restored'.group_index = GIOf(v)
                       /\ rs.commit_id = st.commit_id
                       /\ rs.branch = st.branch
                       /\ rs.commit_node = st.commit_node
                       /\ rs.commit_node_map = st.commit_node_map
                       /\ rs.branch_commit_map = st.branch_commit_map]_vars

C19_Witness ==
    /\ last.op = "__setstate__"
    /\ last.view = "gv"
    /\ restored.group_index = G
    /\ restored.version_state.branch = "alt"
    /\ restored.path = PathOf("s3")

C11_LockedOpensReadOnly ==
    [][\A d \in Handles :
          (dsobj[d].state = "closed" /\ Locked(d) /\ s3Dataset /\ Open(d, FALSE))
              => /\ dsobj'[d].state = "open"
                 /\ dsobj'[d].err = NONE
                 /\ dsobj'[d].read_only
                 /\ dsobj'[d].storage_ro
                 /\ dsobj'[d].warned]_vars

C11_Witness ==
    \E d \in Handles :
        /\ Locked(d)
        /\ s3Dataset
        /\ dsobj[d].state = "open"
        /\ dsobj[d].warned
        /\ dsobj[d].callbacks = 0
        /\ dsobj[d].read_only

\* what v[item] gives at the current state: order of resolution and the
\* object handed back
LookupResolves ==
    \A v \in open : \A item \in LookupNames :
        LET w0       == World(v)
            w        == getitem(w0, IndexOf(v), GIOf(v), item)
            fullpath == Join(GIOf(v), item)
            ns       == NamespaceOf(v)
            sp       == Split(item)
            h        == getitem(w0, IndexOf(v), GIOf(v), sp[1])
            t        == getitem(h, h.obj.index, h.obj.group_index, sp[2])
        IN  /\ fullpath \in TensorSet(ns) =>
                  /\ w.err = NONE
                  /\ w.ret = <<"tensor", fullpath>>
                  /\ w.obj.index = IndexOf(v)
            /\ (fullpath \notin TensorSet(ns) /\ fullpath \in GroupSet(ns)) =>
                  /\ w.err = NONE
                  /\ w.ret = <<"group", fullpath>>
                  /\ w.obj = [index |-> IndexOf(v), group_index |-> fullpath,
                              read_only |-> readOnly, shared |-> TRUE]
            /\ (fullpath \notin TensorSet(ns) \cup GroupSet(ns) /\ HasSlash(item)) =>
                  IF h.err # NONE THEN w.err = h.err
                  ELSE IF h.ret[1] = "group"
                  THEN w.err = t.err /\ w.ret = t.ret /\ w.obj = t.obj
                  ELSE w.err # NONE
            /\ (fullpath \notin TensorSet(ns) \cup GroupSet(ns) /\ ~HasSlash(item)) =>
                  w.err = "TensorDoesNotExistError"
            /\ w.store = store /\ w.base = base /\ w.dirty = dirty
            /\ w.st.commit_id = commit_id_of(v)

\* a lookup step changes neither an index nor the namespace
LookupFrame ==
    \A v \in Views : \A item \in LookupNames :
        GetItem(v, item) => index' = index /\ store' = store /\ base' = base

\* C21: dataset[name] for a string name resolves in this order: a tensor at
\* group_index/name is returned with the view's index applied; else a group
\* at that path gives a view with the same version state, index and
\* read-only flag and group path group_index/name; else a name with "/" is
\* resolved head first, then the last component in the view the head gave;
\* else TensorDoesNotExistError.  The lookup changes neither the view's
\* index nor the namespace.
C21_LookupOrder == []LookupResolves /\ [][LookupFrame]_vars

\* the root of a group view made x a group after the dataset made it a
\* tensor, and the lookup of x through the root returned the tensor
C21_Witness ==
    /\ last.op = "getitem"
    /\ last.view = "rv"
    /\ last.ret = <<"tensor", X>>
    /\ X \in GroupSet(NamespaceOf("rv"))
    /\ "iv" \in open

\* C26: dataset[name] terminates for every string name and every namespace:
\* it returns a tensor or a group view, or raises TensorDoesNotExistError,
\* after finitely many nested lookups, also for names with a leading,
\* trailing or repeated "/" and for the name "/".
C26_LookupTerminates ==
    \A v \in open : \A item \in LookupNames \ {<<"x", "/", "y">>} :
        LET w == getitem(World(v), IndexOf(v), GIOf(v), item)
        IN  \/ w.err = NONE /\ w.ret[1] \in {"tensor", "group"}
            \/ w.err = "TensorDoesNotExistError"

\* the group sets a tier holds, by key
GroupSets(tier) ==
    [k \in { x \in DOMAIN tier : x[1] = "dm" } |-> GroupSet(tier[k])]

\* C22: a create_group call that fails with TensorAlreadyExistsError,
\* TensorGroupAlreadyExistsError or InvalidTensorGroupNameError leaves the
\* namespace unchanged: the group sets in the cache and in the base tier are
\* those before the call.
C22_FailedCreateGroupLeavesNamespace ==
    [][\A v \in {"ds", "gv"} : \A raw \in RawFor(v) :
        (/\ last'.op = "create_group"
         /\ last'.view = v
         /\ last'.err \in {"TensorAlreadyExistsError",
                           "TensorGroupAlreadyExistsError",
                           "InvalidTensorGroupNameError"}
         /\ CreateGroup(v, raw)) =>
            /\ GroupSets(store') = GroupSets(store)
            /\ GroupSets(base') = GroupSets(base)
    ]_vars

\* commit_id, branch, commit_node_map and branch_commit_map
Position(st) ==
    <<st.commit_id, st.branch, st.commit_node_map, st.branch_commit_map>>

\* C23: a create_tensor call that fails with TensorAlreadyExistsError,
\* TensorGroupAlreadyExistsError or InvalidTensorNameError leaves commit_id,
\* branch, commit_node_map and branch_commit_map as they were, also when the
\* call was made at a finalized commit.
C23_FailedCreateTensorLeavesVersionState ==
    [][\A v \in {"ds", "gv"} : \A raw \in RawFor(v) :
        (/\ last'.op = "create_tensor"
         /\ last'.view = v
         /\ last'.err \in {"TensorAlreadyExistsError",
                           "TensorGroupAlreadyExistsError",
                           "InvalidTensorNameError"}
         /\ CreateTensor(v, raw)) =>
            /\ Position(vs'["V"]) = Position(vs["V"])
            /\ (VCKey \in DOMAIN store' => VCKey \in DOMAIN store /\ store'[VCKey] = store[VCKey])
    ]_vars

\* no node of the current node's branch has the current node as parent
IsHead(st) ==
    LET cnm == st.commit_node_map
    IN  ~\E m \in DOMAIN cnm :
            /\ cnm[m].parent = st.commit_id
            /\ cnm[m].branch = cnm[st.commit_id].branch

\* C24: in every state reachable by opening a dataset, with or without
\* stored version info, and applying commit, checkout, create_tensor and
\* create_group: commit_node_map[commit_id] is commit_node, every branch
\* maps to a node of commit_node_map, and branch_commit_map[branch] is
\* commit_id whenever the position is the head of its branch; while no
\* version info is stored the dataset is at the single root node
\* FIRST_COMMIT_ID on branch main, with no commit_time.
C24_VersionStateInvariant ==
    \A v \in open :
        LET st == vs[VSOf(v)]
        IN  /\ st.commit_id \in DOMAIN st.commit_node_map
            /\ st.commit_node = st.commit_id
            /\ st.branch \in DOMAIN st.branch_commit_map
            /\ \A b \in DOMAIN st.branch_commit_map :
                   st.branch_commit_map[b] \in DOMAIN st.commit_node_map
            /\ IsHead(st) => st.branch_commit_map[st.branch] = st.commit_id
            /\ VCKey \notin DOMAIN store =>
                   /\ st.commit_id = FIRST_COMMIT_ID
                   /\ st.branch = "main"
                   /\ DOMAIN st.commit_node_map = {FIRST_COMMIT_ID}
                   /\ st.commit_node_map[FIRST_COMMIT_ID] = CommitNode("main", NoParent)
                   /\ st.branch_commit_map = [b \in {"main"} |-> FIRST_COMMIT_ID]

\* a root view opened on stored version info, the dataset at a finalized
\* commit that is not the head of its branch, two branches
C24_Witness ==
    /\ "rv" \in open
    /\ vs["R"].commit_id # FIRST_COMMIT_ID
    /\ IsFinalized(vs["V"])
    /\ ~IsHead(vs["V"])
    /\ Cardinality(DOMAIN vs["V"].branch_commit_map) >= 2
    /\ X \in TensorSet(NamespaceOf("ds"))

\* the tensors a view exposes and the number of rows it shows
Exposed(v) ==
    { t \in TensorSet(NamespaceOf(v)) :
        GIOf(v) = EMPTY \/ StartsWith(t, GIOf(v) \o <<SLASH>>) }

RawLength(v, t) == store[TMKey(commit_id_of(v), t)].length

VisibleRows(v) ==
    MinOf({ Len(Rows(IndexOf(v), RawLength(v, t))) : t \in Exposed(v) })

RootConstructionTurnsAutoflushOn ==
    "gv" \in open =>
        dataset_init(World("gv"), IndexOf("gv"), EMPTY, readOnly, FALSE).af

\* reading root or parent, and the calls a group view delegates to its
\* root, leave autoflush as it was
RootAccessKeepsAutoflush ==
    (\/ GetRoot
     \/ GetParent
     \/ CreateTensor("gv", X)
     \/ CreateGroup("gv", X)) => autoflush' = autoflush

\* C27: reading the root or the parent of a group view leaves
\* storage.autoflush at the value it had before the access, false inside a
\* scoped-write block, although constructing a whole-dataset root view
\* turns autoflush on; create_tensor and create_group delegated from a
\* group view do not change autoflush.
C27_RootAccessRestoresAutoflush ==
    []RootConstructionTurnsAutoflushOn /\ [][RootAccessKeepsAutoflush]_vars

\* inside a block, the root of the group view was read and then a tensor
\* created through the group view
C27_Witness ==
    /\ scope > 0
    /\ ~autoflush
    /\ "rv" \in open
    /\ last.op = "create_tensor"
    /\ last.view = "gv"
    /\ last.err = NONE
    /\ dirty # {}

\* C28: while a scoped-write block on a storage is open, storage.autoflush
\* stays false across every Dataset operation on any view of that storage,
\* including subscripting, create_tensor / create_group and entering and
\* leaving a nested block; autoflush becomes true only when the outermost
\* block exits.
C28_AutoflushOffInsideBlock ==
    scope > 0 => ~autoflush

====
